---- MODULE Spec2Model ----
(***************************************************************************)
(* Model of the datastructsalgo library: the D-ary heap (trees/heaps.py),  *)
(* the priority queue adapter (miscellaneous_data_structures/queue.py),    *)
(* Prim's and Dijkstra's algorithms (graphs/algorithms.py) and the         *)
(* minimum_random_forest driver.                                           *)
(*                                                                         *)
(* Array indices are the 0-based indices of the code; the backing array is *)
(* a sequence, so heap[i] of the code is At(heap, i).                      *)
(***************************************************************************)
EXTENDS Integers, Sequences, FiniteSets, Bags, TLC

VARIABLES
    pc,             \* position of the caller: which object exists / loop position
    elements,       \* DHeap.__new__ argument: the initial list of nodes
    heap_property,  \* DHeap.__new__ argument
    heap,           \* DHeap.heap: the backing array (dense over 0..Len-1)
    lpf,            \* DHeap._last_pos_filled
    d,              \* DHeap.d
    comp,           \* DHeap._comp, as the name of the comparator
    op,             \* the last operation called
    ret,            \* what the last operation returned or raised
    nIns,           \* history: number of inserts so far
    nExt,           \* history: number of successful extracts so far
    extracted,      \* history: keys extracted from a DHeap while no insert has followed an extract
    interleaved,    \* history: an insert happened after an extract
    vertices,       \* Graph.vertices of the input graph: the list of vertex names
    edge_weights,   \* Graph.edge_weights of the input graph: (source, target) -> weight
    input,          \* history: the input graph as first handed to the algorithm
    results,        \* minimum_random_forest: the trees returned so far
    e,              \* Prim: e, the best known edge into each vertex
    mst_vertices,   \* Prim: mst.vertices
    mst_edges,      \* Prim: mst.edge_weights
    start,          \* Dijkstra: the source
    visited,        \* Dijkstra: visited
    dist,           \* Dijkstra: dist
    pred,           \* Dijkstra: pred (0 is None)
    it,             \* Dijkstra: iterations of the loop of line 191 done so far
    sp_target,      \* Dijkstra: target (0 is "", no target)
    algorithm,      \* minimum_spanning_tree / shortest_paths: the algorithm argument
    impl            \* Graph._impl of the input graph

hvars == <<heap, lpf, d, comp>>
argvars == <<elements, heap_property>>
histvars == <<nIns, nExt, extracted, interleaved>>
gvars == <<vertices, edge_weights, input, results, algorithm, impl>>
pvars == <<e, mst_vertices, mst_edges>>
dvars == <<start, visited, dist, pred, it, sp_target>>
vars == <<pc, elements, heap_property, heap, lpf, d, comp, op, ret,
          nIns, nExt, extracted, interleaved,
          vertices, edge_weights, input, results, e, mst_vertices, mst_edges,
          start, visited, dist, pred, it, sp_target, algorithm, impl>>

----------------------------------------------------------------------------
(* Bounds *)
MaxKey == 3         \* keys / priorities are 1..MaxKey
MaxData == 2        \* payloads are 1..MaxData
MaxD == 3           \* arities are 2..MaxD
MaxElems == 4       \* longest initial list handed to the constructor
MaxSize == 4        \* inserts are enabled while the heap holds fewer nodes
MaxOps == 8         \* inserts + extracts per run of a heap or queue created empty
MaxBuiltOps == 3    \* inserts + extracts per run of a heap built from a non-empty list

Keys == 1..MaxKey
Data == 1..MaxData
NoData == 0         \* data=None, the default of DHeap.insert

\* the lists of nodes handed to the constructor: any keys, the i-th node
\* carrying the payload i
ElementLists ==
    UNION {{[i \in 1..n |-> [key |-> ks[i], data |-> i]] : ks \in [1..n -> Keys]} :
              n \in 0..MaxElems}

----------------------------------------------------------------------------
(* Results of operations *)
NoRet == [kind |-> "none", key |-> 0, data |-> 0]
RetNode(n) == [kind |-> "node", key |-> n.key, data |-> n.data]
RetValue(v) == [kind |-> "value", key |-> 0, data |-> v]
RetBool(b) == [kind |-> IF b THEN "true" ELSE "false", key |-> 0, data |-> 0]
RetIndexError == [kind |-> "IndexError", key |-> 0, data |-> 0]
RetValueError == [kind |-> "ValueError", key |-> 0, data |-> 0]
RetKeyError == [kind |-> "KeyError", key |-> 0, data |-> 0]
RetNotImplementedError == [kind |-> "NotImplementedError", key |-> 0, data |-> 0]
RetTypeError == [kind |-> "TypeError", key |-> 0, data |-> 0]
\* the pair returned by shortest_paths
RetPaths(dm, pm) == [kind |-> "paths", key |-> dm, data |-> pm]

----------------------------------------------------------------------------
(* The backing array (datastructsalgo.linear_data_structures.arrays) *)
At(h, i) == h[i + 1]
ArrayLastPosFilled(h) == Len(h) - 1
ArrayAppend(h, node) == Append(h, node)
ArrayDelete(h, idx) ==
    IF idx >= 0 /\ idx <= ArrayLastPosFilled(h)
    THEN SubSeq(h, 1, idx) \o SubSeq(h, idx + 2, Len(h))
    ELSE h

----------------------------------------------------------------------------
(* DHeap *)
Comp(c, key_parent, key_child) ==
    CASE c = "min" -> key_parent <= key_child
      [] c = "max" -> key_parent >= key_child
      [] c = "lt"  -> key_parent < key_child
      [] c = "gt"  -> key_parent > key_child

\* variant: the keys change places and the data stay where they are
swap_keys_only(h, idx1, idx2) ==
    [h EXCEPT ![idx1 + 1].key = h[idx2 + 1].key, ![idx2 + 1].key = h[idx1 + 1].key]

swap(h, idx1, idx2) ==
    [h EXCEPT ![idx1 + 1] = h[idx2 + 1], ![idx2 + 1] = h[idx1 + 1]]

\* variant: a child replaces the target only when its key differs from it
RECURSIVE heapify_scan_strict(_, _, _, _, _, _)
heapify_scan_strict(h, last, c, j, r, target) ==
    IF j > r THEN target
    ELSE IF j <= last
         THEN heapify_scan_strict(h, last, c, j + 1, r,
                  IF Comp(c, At(h, j).key, At(h, target).key)
                        /\ At(h, j).key # At(h, target).key
                  THEN j ELSE target)
         ELSE target

\* the for loop of _heapify: scan children j..r, stop at the first j past the end
RECURSIVE heapify_scan(_, _, _, _, _, _)
heapify_scan(h, last, c, j, r, target) ==
    IF j > r THEN target
    ELSE IF j <= last
         THEN heapify_scan(h, last, c, j + 1, r,
                           IF Comp(c, At(h, j).key, At(h, target).key) THEN j ELSE target)
         ELSE target

\* variant: only the leftmost child is compared with the node
heapify_target_first_child(h, last, dd, c, i) ==
    IF dd * i + 1 <= last /\ Comp(c, At(h, dd * i + 1).key, At(h, i).key)
    THEN dd * i + 1
    ELSE i

heapify_target(h, last, dd, c, i) == heapify_scan(h, last, c, dd * i + 1, dd * i + dd, i)

RECURSIVE heapify(_, _, _, _, _)
heapify(h, last, dd, c, i) ==
    LET target == heapify_target(h, last, dd, c, i)
    IN IF target # i
       THEN heapify(swap(h, target, i), last, dd, c, target)
       ELSE h

\* the second loop of _build: i from (last+1) div d down to 0
RECURSIVE build_from(_, _, _, _, _)
build_from(h, last, dd, c, i) ==
    IF i < 0 THEN h
    ELSE build_from(heapify(h, last, dd, c, i), last, dd, c, i - 1)

\* variant: the parents are sifted down from the root upwards
RECURSIVE build_topdown_from(_, _, _, _, _)
build_topdown_from(h, last, dd, c, i) ==
    IF i > (last + 1) \div dd THEN h
    ELSE build_topdown_from(heapify(h, last, dd, c, i), last, dd, c, i + 1)

build_topdown(h, last, dd, c) == build_topdown_from(h, last, dd, c, 0)

build(h, last, dd, c) == build_from(h, last, dd, c, (last + 1) \div dd)

\* variant: the new node is swapped with its parent at most once
sift_up_once(h, dd, c, i) ==
    LET parent == (i - 1) \div dd
    IN IF i = 0 \/ Comp(c, At(h, parent).key, At(h, i).key)
       THEN h
       ELSE swap(h, i, parent)

\* the while loop of insert
RECURSIVE sift_up(_, _, _, _)
sift_up(h, dd, c, i) ==
    LET parent == (i - 1) \div dd
    IN IF i = 0 \/ Comp(c, At(h, parent).key, At(h, i).key)
       THEN h
       ELSE sift_up(swap(h, i, parent), dd, c, parent)

\* variant: the new node stays in the last slot
insert_no_sift(h, last, dd, c, key, data) ==
    ArrayAppend(h, [key |-> key, data |-> data])

insert(h, last, dd, c, key, data) ==
    sift_up(ArrayAppend(h, [key |-> key, data |-> data]), dd, c, last + 1)

\* variant: the new root is not sifted down
extract_heap_no_heapify(h, last, dd, c) ==
    ArrayDelete(swap(h, 0, last), last)

extract_heap(h, last, dd, c) ==
    heapify(ArrayDelete(swap(h, 0, last), last), last - 1, dd, c, 0)

\* variant: off by one
is_empty_zero(h) == ArrayLastPosFilled(h) = 0

is_empty(h) == ArrayLastPosFilled(h) = -1

\* BinaryHeapPriorityQueue.push: self.items.insert(priority, value)
push(h, last, c, value, priority) == insert(h, last, 2, c, priority, value)

----------------------------------------------------------------------------
(* The parts of the state a run does not use *)
EmptyMap == [x \in {} |-> 0]

GraphIdle ==
    /\ vertices = <<>>
    /\ edge_weights = EmptyMap
    /\ input = [vertices |-> <<>>, edge_weights |-> EmptyMap]
    /\ results = <<>>
    /\ algorithm = "none"
    /\ impl = "none"

PrimIdle ==
    /\ e = EmptyMap
    /\ mst_vertices = {}
    /\ mst_edges = EmptyMap

DijkstraIdle ==
    /\ start = 0
    /\ visited = EmptyMap
    /\ dist = EmptyMap
    /\ pred = EmptyMap
    /\ it = 0
    /\ sp_target = 0

HeapIdle ==
    /\ elements = <<>>
    /\ heap_property = "min"
    /\ heap = <<>>
    /\ lpf = -1
    /\ d = 2
    /\ comp = "lt"
    /\ op = "none"
    /\ ret = [kind |-> "none", key |-> 0, data |-> 0]
    /\ nIns = 0
    /\ nExt = 0
    /\ extracted = <<>>
    /\ interleaved = FALSE

----------------------------------------------------------------------------
(* Specification of a DHeap driven by a caller *)
HeapProperties == {"min", "max"}
\* the heap_property arguments handed to the constructor
HeapPropertyArgs == HeapProperties \cup {"mid"}

\* variant: every property other than "min" selects the max comparator
new_comp_else_max(hp) == IF hp = "min" THEN "min" ELSE "max"

\* lines 76-81: the comparator selected, or the ValueError raised
new_comp(hp) ==
    IF hp = "min" THEN "min"
    ELSE IF hp = "max" THEN "max"
    ELSE "ValueError"

HeapInit ==
    /\ pc = "new"
    /\ elements \in ElementLists
    /\ heap_property \in HeapPropertyArgs
    /\ d \in 2..MaxD
    /\ heap = <<>>
    /\ lpf = -1
    /\ comp = "none"
    /\ op = "none"
    /\ ret = NoRet
    /\ nIns = 0
    /\ nExt = 0
    /\ extracted = <<>>
    /\ interleaved = FALSE
    /\ GraphIdle
    /\ PrimIdle
    /\ DijkstraIdle

OpsLeft == nIns + nExt < (IF elements = <<>> THEN MaxOps ELSE MaxBuiltOps)

\* DHeap.__new__(elements, heap_property, d)
New ==
    /\ pc = "new"
    /\ \E c \in {new_comp(heap_property)} :
         IF c = "ValueError"
         THEN /\ pc' = "failed"
              /\ ret' = RetValueError
              /\ UNCHANGED <<heap, lpf, comp>>
         ELSE /\ comp' = c
              /\ lpf' = ArrayLastPosFilled(elements)
              /\ heap' = build(elements, ArrayLastPosFilled(elements), d, c)
              /\ pc' = "heap"
              /\ ret' = NoRet
    /\ op' = "new"
    /\ UNCHANGED <<elements, heap_property, d, histvars, gvars, pvars, dvars>>

\* DHeap.insert(key, data)
Insert ==
    /\ pc = "heap"
    /\ Len(heap) < MaxSize
    /\ OpsLeft
    /\ \E key \in Keys :
         heap' = insert(heap, lpf, d, comp, key, NoData)
    /\ lpf' = lpf + 1
    /\ op' = "insert"
    /\ ret' = NoRet
    /\ nIns' = nIns + 1
    /\ extracted' = IF nExt > 0 THEN <<>> ELSE extracted
    /\ interleaved' = (interleaved \/ nExt > 0)
    /\ UNCHANGED <<pc, argvars, d, comp, nExt, gvars, pvars, dvars>>

\* variant: the docstring's behaviour, None for an empty heap
ExtractReturnsNone ==
    /\ pc = "heap"
    /\ op' = "extract"
    /\ IF lpf = -1
       THEN /\ ret' = NoRet
            /\ UNCHANGED <<hvars, histvars>>
       ELSE /\ OpsLeft
            /\ ret' = RetNode(At(heap, 0))
            /\ heap' = extract_heap(heap, lpf, d, comp)
            /\ lpf' = lpf - 1
            /\ nExt' = nExt + 1
            /\ extracted' = IF interleaved THEN <<>> ELSE Append(extracted, At(heap, 0).key)
            /\ UNCHANGED <<d, comp, nIns, interleaved>>
    /\ UNCHANGED <<pc, argvars, gvars, pvars, dvars>>

\* DHeap.extract()
Extract ==
    /\ pc = "heap"
    /\ op' = "extract"
    /\ IF lpf = -1
       THEN /\ ret' = RetIndexError
            /\ UNCHANGED <<hvars, histvars>>
       ELSE /\ OpsLeft
            /\ ret' = RetNode(At(heap, 0))
            /\ heap' = extract_heap(heap, lpf, d, comp)
            /\ lpf' = lpf - 1
            /\ nExt' = nExt + 1
            /\ extracted' = IF interleaved THEN <<>> ELSE Append(extracted, At(heap, 0).key)
            /\ UNCHANGED <<d, comp, nIns, interleaved>>
    /\ UNCHANGED <<pc, argvars, gvars, pvars, dvars>>

\* DHeap.is_empty
IsEmpty ==
    /\ pc = "heap"
    /\ op' = "is_empty"
    /\ ret' = RetBool(is_empty(heap))
    /\ UNCHANGED <<pc, argvars, hvars, histvars, gvars, pvars, dvars>>

----------------------------------------------------------------------------
(* PriorityQueue: BinaryHeapPriorityQueue over a BinaryHeap (d = 2) *)
PQComparators == {"lt", "gt"}       \* lambda u, v: u < v (default); lambda u, v: u > v

\* PriorityQueue(implementation='binary_heap', comp=...)
PQInit ==
    /\ pc = "pq"
    /\ elements = <<>>
    /\ heap_property = "min"
    /\ d = 2
    /\ heap = build(<<>>, -1, 2, "min")
    /\ lpf = -1
    /\ comp \in PQComparators
    /\ op = "none"
    /\ ret = NoRet
    /\ nIns = 0
    /\ nExt = 0
    /\ extracted = <<>>
    /\ interleaved = FALSE
    /\ GraphIdle
    /\ PrimIdle
    /\ DijkstraIdle

\* variant: the last node instead of the root
peek_last(h) == At(h, ArrayLastPosFilled(h))

peek_node(h) == At(h, 0)

\* BinaryHeapPriorityQueue.push(value, priority)
Push ==
    /\ pc = "pq"
    /\ Len(heap) < MaxSize
    /\ OpsLeft
    /\ \E value \in Data, priority \in Keys :
         heap' = push(heap, lpf, comp, value, priority)
    /\ lpf' = lpf + 1
    /\ op' = "push"
    /\ ret' = NoRet
    /\ nIns' = nIns + 1
    /\ interleaved' = (interleaved \/ nExt > 0)
    /\ UNCHANGED <<pc, argvars, d, comp, nExt, extracted, gvars, pvars, dvars>>

\* BinaryHeapPriorityQueue.pop()
Pop ==
    /\ pc = "pq"
    /\ op' = "pop"
    /\ IF lpf = -1
       THEN /\ ret' = RetIndexError
            /\ UNCHANGED <<hvars, histvars>>
       ELSE /\ OpsLeft
            /\ ret' = RetValue(At(heap, 0).data)
            /\ heap' = extract_heap(heap, lpf, d, comp)
            /\ lpf' = lpf - 1
            /\ nExt' = nExt + 1
            /\ UNCHANGED <<d, comp, nIns, interleaved, extracted>>
    /\ UNCHANGED <<pc, argvars, gvars, pvars, dvars>>

\* BinaryHeapPriorityQueue.peek
Peek ==
    /\ pc = "pq"
    /\ op' = "peek"
    /\ ret' = IF is_empty(heap) THEN RetIndexError ELSE RetNode(peek_node(heap))
    /\ UNCHANGED <<pc, argvars, hvars, histvars, gvars, pvars, dvars>>

\* BinaryHeapPriorityQueue.is_empty
PQIsEmpty ==
    /\ pc = "pq"
    /\ op' = "pq_is_empty"
    /\ ret' = RetBool(is_empty(heap))
    /\ UNCHANGED <<pc, argvars, hvars, histvars, gvars, pvars, dvars>>

----------------------------------------------------------------------------
Init == HeapInit \/ PQInit

Next == New \/ Insert \/ Extract \/ IsEmpty \/ Push \/ Pop \/ Peek \/ PQIsEmpty

Spec == Init /\ [][Next]_vars

----------------------------------------------------------------------------
(* The graph container (datastructsalgo.graphs.graph): a list of vertex   *)
(* names and a map from directed edges to weights.                         *)
NV == 4                 \* vertices of the graphs handed to Prim are 1..NV
NVFair == 3             \* and 1..NVFair where termination is checked
EdgeValues == {1, 2}    \* weights of their edges

Range(s) == {s[i] : i \in DOMAIN s}

RECURSIVE SortedSeq(_)
SortedSeq(S) ==
    IF S = {} THEN <<>>
    ELSE LET m == CHOOSE x \in S : \A y \in S : x <= y
         IN <<m>> \o SortedSeq(S \ {m})

HasEdge(ew, u, v) == <<u, v>> \in DOMAIN ew
neighbors(ew, v) == SortedSeq({w \in {p[2] : p \in DOMAIN ew} : HasEdge(ew, v, w)})
add_vertex(vs, v) == vs \cup {v}
add_edge(ew, source, target, value) ==
    [p \in DOMAIN ew \cup {<<source, target>>} |->
        IF p = <<source, target>> THEN value ELSE ew[p]]
remove_vertex(g, name) ==
    [vertices |-> SelectSeq(g.vertices, LAMBDA x : x # name),
     edge_weights |-> [p \in {q \in DOMAIN g.edge_weights : q[1] # name /\ q[2] # name} |->
                          g.edge_weights[p]]]

RECURSIVE remove_vertices(_, _)
remove_vertices(g0, names) ==
    IF names = <<>> THEN g0
    ELSE CHOOSE r \in {remove_vertices(remove_vertex(g, Head(ns)), Tail(ns)) :
                          g \in {g0}, ns \in {names}} : TRUE

GraphEdge(source, target, value) == [source |-> source, target |-> target, value |-> value]
Put(m, k, val) == [x \in DOMAIN m \cup {k} |-> IF x = k THEN val ELSE m[x]]

\* undirected graphs: every edge is present in both directions with one weight
UndirectedPairs(n) == {p \in (1..n) \X (1..n) : p[1] < p[2]}
Symmetric(half) ==
    [p \in DOMAIN half \cup {<<q[2], q[1]>> : q \in DOMAIN half} |->
        IF p \in DOMAIN half THEN half[p] ELSE half[<<p[2], p[1]>>]]
UndirectedGraphs(n) ==
    {[vertices |-> [i \in 1..n |-> i], edge_weights |-> Symmetric(half)] :
        half \in UNION {[E -> EdgeValues] : E \in SUBSET UndirectedPairs(n)}}

----------------------------------------------------------------------------
(* Prim: _minimum_spanning_tree_prim_adjacency_list *)

\* variant: the best edge of w is replaced by every edge seen later
prim_visit_last_edge(ew, v, w, st) ==
    [heap |-> push(st.heap, st.lpf, "lt", w, ew[<<v, w>>]),
     lpf |-> st.lpf + 1,
     e |-> Put(st.e, w, GraphEdge(v, w, ew[<<v, w>>]))]

\* variant: the neighbour is pushed twice
prim_visit_push_twice(ew, v, w, st) ==
    [heap |-> push(push(st.heap, st.lpf, "lt", w, ew[<<v, w>>]),
                   st.lpf + 1, "lt", w, ew[<<v, w>>]),
     lpf |-> st.lpf + 2,
     e |-> IF w \notin DOMAIN st.e \/ st.e[w].value > ew[<<v, w>>]
           THEN Put(st.e, w, GraphEdge(v, w, ew[<<v, w>>]))
           ELSE st.e]

\* lines 45-50: the neighbour w of v is pushed and its best edge updated;
\* st = [heap, lpf, e]
prim_visit(ew, v, w, st) ==
    [heap |-> push(st.heap, st.lpf, "lt", w, ew[<<v, w>>]),
     lpf |-> st.lpf + 1,
     e |-> IF w \notin DOMAIN st.e \/ st.e[w].value > ew[<<v, w>>]
           THEN Put(st.e, w, GraphEdge(v, w, ew[<<v, w>>]))
           ELSE st.e]

\* variant: only the first neighbour is visited
prim_expand_first_only(ew, v, ws, st0) ==
    IF ws = <<>> THEN st0 ELSE prim_visit(ew, v, Head(ws), st0)

\* the loop over graph.neighbors(v), lines 44-50 (st is bound so that the
\* state handed on is evaluated once)
RECURSIVE prim_expand(_, _, _, _)
prim_expand(ew, v, ws, st0) ==
    IF ws = <<>> THEN st0
    ELSE CHOOSE r \in {prim_expand(ew, v, Tail(ws), prim_visit(ew, v, Head(ws), st)) :
                          st \in {st0}} : TRUE

\* variant: only the edge from the source to the target is added
prim_add_edges_one_way(me, em, v) ==
    IF v \in DOMAIN em
    THEN add_edge(me, em[v].source, em[v].target, em[v].value)
    ELSE me

\* the edges added to mst when v is finalized
prim_add_edges(me, em, v) ==
    IF v \in DOMAIN em
    THEN add_edge(add_edge(me, em[v].source, em[v].target, em[v].value),
                  em[v].target, em[v].source, em[v].value)
    ELSE me

\* the attributes of the module datastructsalgo.graphs.algorithms
ModuleAttributes ==
    {"deque", "PriorityQueue", "Graph", "Stack", "Queue", "_generate_mst_object",
     "_sort_edges", "_minimum_spanning_tree_prim_adjacency_list",
     "minimum_spanning_tree", "shortest_paths", "_dijkstra_adjacency_list",
     "_dijkstra_adjacency_matrix"}
\* the functions among them that take (graph, source, target)
TakesThree == {"_dijkstra_adjacency_list", "_dijkstra_adjacency_matrix"}
\* line 109 and line 172: the name looked up in the module
mst_func(alg, im) == "_minimum_spanning_tree_" \o alg \o "_" \o im
sp_func(alg, im) == "_" \o alg \o "_" \o im

\* minimum_spanning_tree(graph, algorithm), lines 108-115, and
\* _minimum_spanning_tree_prim_adjacency_list up to the first test of its loop
MSTCall ==
    /\ pc = "driver"
    /\ Len(vertices) > 0
    /\ IF mst_func(algorithm, impl) \in ModuleAttributes
       THEN /\ heap' = push(build(<<>>, -1, 2, "min"), -1, "lt", vertices[1], 0)
            /\ lpf' = 0
            /\ d' = 2
            /\ comp' = "lt"
            /\ e' = EmptyMap
            /\ mst_vertices' = {}
            /\ mst_edges' = EmptyMap
            /\ pc' = "prim"
            /\ UNCHANGED ret
       ELSE /\ pc' = "failed"
            /\ ret' = RetNotImplementedError
            /\ UNCHANGED <<hvars, pvars>>
    /\ op' = "minimum_spanning_tree"
    /\ nExt' = 0
    /\ UNCHANGED <<argvars, nIns, extracted, interleaved, vertices, edge_weights, input, results, algorithm, impl, dvars>>

\* variant: no vertex counts as present in mst
prim_finalized_never(mv, v) == FALSE

\* line 37: hasattr(mst, v)
prim_finalized(mv, v) == v \in mv

\* one iteration of Prim's while loop
PrimIter ==
    /\ pc = "prim"
    /\ ~is_empty(heap)
    /\ \E v \in {At(heap, 0).data}, popped \in {extract_heap(heap, lpf, d, comp)} :
         IF ~prim_finalized(mst_vertices, v)
         THEN \E ws \in {neighbors(edge_weights, v)} :
              \E st \in {prim_expand(edge_weights, v, ws,
                                     [heap |-> popped, lpf |-> lpf - 1, e |-> e])} :
                /\ mst_vertices' = IF v \in DOMAIN e
                                   THEN add_vertex(add_vertex(mst_vertices, v), e[v].target)
                                   ELSE add_vertex(mst_vertices, v)
                /\ mst_edges' = prim_add_edges(mst_edges, e, v)
                /\ heap' = st.heap
                /\ lpf' = st.lpf
                /\ e' = st.e
                /\ op' = "prim_iter"
         ELSE /\ heap' = popped
              /\ lpf' = lpf - 1
              /\ op' = "prim_skip"
              /\ UNCHANGED <<e, mst_vertices, mst_edges>>
    /\ nExt' = nExt + 1
    /\ UNCHANGED <<pc, argvars, d, comp, ret, nIns, extracted, interleaved,
                   vertices, edge_weights, input, results, algorithm, impl, dvars>>

\* variant: mst is the input graph itself, which is left with the tree's edges
PrimReturnAliased ==
    /\ pc = "prim"
    /\ is_empty(heap)
    /\ pc' = "returned"
    /\ op' = "return_mst"
    /\ results' = Append(results, [vertices |-> mst_vertices, edge_weights |-> mst_edges])
    /\ edge_weights' = mst_edges
    /\ UNCHANGED <<argvars, hvars, ret, histvars, vertices, input, algorithm, impl, pvars, dvars>>

\* Prim's loop ends and mst is returned to the driver
PrimReturn ==
    /\ pc = "prim"
    /\ is_empty(heap)
    /\ pc' = "returned"
    /\ op' = "return_mst"
    /\ results' = Append(results, [vertices |-> mst_vertices, edge_weights |-> mst_edges])
    /\ UNCHANGED <<argvars, hvars, ret, histvars, vertices, edge_weights, input, algorithm, impl, pvars, dvars>>

\* minimum_random_forest.py, lines 24-25
DriverRemove ==
    /\ pc = "returned"
    /\ \E g \in {remove_vertices([vertices |-> vertices, edge_weights |-> edge_weights],
                                  SortedSeq(mst_vertices))} :
         /\ vertices' = g.vertices
         /\ edge_weights' = g.edge_weights
    /\ pc' = "driver"
    /\ op' = "remove_vertices"
    /\ UNCHANGED <<argvars, hvars, ret, histvars, input, results, algorithm, impl, pvars, dvars>>

\* minimum_random_forest.py, line 21: the loop ends
DriverExit ==
    /\ pc = "driver"
    /\ Len(vertices) = 0
    /\ pc' = "done"
    /\ op' = "exit"
    /\ UNCHANGED <<argvars, hvars, ret, histvars, vertices, edge_weights, input, results, algorithm, impl, pvars, dvars>>

ForestInitOn(n) ==
    /\ pc = "driver"
    /\ \E g \in UndirectedGraphs(n) :
         /\ vertices = g.vertices
         /\ edge_weights = g.edge_weights
         /\ input = g
    /\ results = <<>>
    /\ algorithm = "prim"
    /\ impl = "adjacency_list"
    /\ PrimIdle
    /\ HeapIdle
    /\ DijkstraIdle

\* directed graphs on 1..n, every edge of weight 0
DirectedZeroGraphs(n) ==
    {[vertices |-> [i \in 1..n |-> i], edge_weights |-> [p \in E |-> 0]] :
        E \in SUBSET {p \in (1..n) \X (1..n) : p[1] # p[2]}}

\* one call minimum_spanning_tree(graph, 'prim') on any graph
PrimInit ==
    /\ pc = "driver"
    /\ \E g \in UndirectedGraphs(NVFair) \cup DirectedZeroGraphs(NVFair) :
         /\ vertices = g.vertices
         /\ edge_weights = g.edge_weights
         /\ input = g
    /\ results = <<>>
    /\ algorithm = "prim"
    /\ impl = "adjacency_list"
    /\ PrimIdle
    /\ HeapIdle
    /\ DijkstraIdle

PrimNext == MSTCall \/ PrimIter \/ PrimReturn

\* the call is sequential code: it takes its next step when it has one
SpecPrimFair == PrimInit /\ [][PrimNext]_vars /\ WF_vars(PrimNext)

ForestInit == ForestInitOn(NV)
ForestFairInit == ForestInitOn(NVFair)

ForestNext == MSTCall \/ PrimIter \/ PrimReturn \/ DriverRemove \/ DriverExit

SpecForest == ForestInit /\ [][ForestNext]_vars

\* the driver is a sequential program: it takes its next step when it has one
SpecForestFair == ForestFairInit /\ [][ForestNext]_vars /\ WF_vars(ForestNext)

----------------------------------------------------------------------------
(* Dijkstra: shortest_paths / _dijkstra_adjacency_list *)
NVD == 6                    \* vertices of the graphs handed to Dijkstra are 1..NVD
NStart == 2                 \* the source is one of 1..NStart
Inf == 1000                 \* float('inf')
\* the directed edges a graph may have, each with one of the weights
CandidateEdges == {<<1, 2>>, <<2, 3>>, <<3, 4>>, <<2, 4>>, <<1, 4>>, <<4, 5>>, <<5, 6>>}
DijkstraValues == {0, 1, 3, 5}

TargetValues == {1, 3}      \* the weights where a target is given
SignedValues == {-1, 0, 1}  \* the weights where zero and negative weights matter
NoTarget == 0               \* target="", the default of shortest_paths
Targets == 1..(NVD + 1)     \* the targets given: the vertices and a name that is none

DirectedGraphsOver(values) ==
    {[vertices |-> [i \in 1..NVD |-> i], edge_weights |-> ew] :
        ew \in UNION {[E -> values] : E \in SUBSET CandidateEdges}}

DirectedGraphs == DirectedGraphsOver(DijkstraValues)

Plus(a, b) == IF a = Inf THEN Inf ELSE a + b

\* lines 182-187: visited, dist and pred before the loop
dijkstra_visited0(vs) == [v \in Range(vs) |-> FALSE]
dijkstra_pred0(vs) == [v \in Range(vs) |-> 0]
dijkstra_dist0(vs, s) == [v \in Range(vs) \cup {s} |-> IF v = s THEN 0 ELSE Inf]
\* the order in which dist was filled: the other vertices, then the source
dijkstra_dist_order(vs, s) == SelectSeq(vs, LAMBDA v : v # s) \o <<s>>

\* lines 189-190: every vertex is pushed with its distance
RECURSIVE dijkstra_push_all(_, _, _, _)
dijkstra_push_all(h, last, order, dm) ==
    IF order = <<>> THEN h
    ELSE dijkstra_push_all(push(h, last, "lt", Head(order), dm[Head(order)]),
                           last + 1, Tail(order), dm)

\* variant: the weight is not tested
dijkstra_relaxes_any_weight(ew, vis, dm, u, v) ==
    /\ HasEdge(ew, u, v)
    /\ vis[v] = FALSE
    /\ dm[v] > Plus(dm[u], ew[<<u, v>>])

\* variant: an equal distance relaxes too
dijkstra_relaxes_on_equal(ew, vis, dm, u, v) ==
    /\ HasEdge(ew, u, v)
    /\ ew[<<u, v>>] > 0
    /\ vis[v] = FALSE
    /\ dm[v] >= Plus(dm[u], ew[<<u, v>>])

dijkstra_relaxes(ew, vis, dm, u, v) ==
    /\ HasEdge(ew, u, v)
    /\ ew[<<u, v>>] > 0
    /\ vis[v] = FALSE
    /\ dm[v] > Plus(dm[u], ew[<<u, v>>])

\* variant: the distance is lowered and the predecessor is left as it was
dijkstra_visit_keeps_pred(ew, vis, u, v, st) ==
    IF dijkstra_relaxes(ew, vis, st.dist, u, v)
    THEN [heap |-> push(st.heap, st.lpf, "lt", v, Plus(st.dist[u], ew[<<u, v>>])),
          lpf |-> st.lpf + 1,
          dist |-> [st.dist EXCEPT ![v] = Plus(st.dist[u], ew[<<u, v>>])],
          pred |-> st.pred]
    ELSE st

\* lines 195-200: the body of the loop over graph.vertices;
\* st = [heap, lpf, dist, pred]
dijkstra_visit(ew, vis, u, v, st) ==
    IF dijkstra_relaxes(ew, vis, st.dist, u, v)
    THEN [heap |-> push(st.heap, st.lpf, "lt", v, Plus(st.dist[u], ew[<<u, v>>])),
          lpf |-> st.lpf + 1,
          dist |-> [st.dist EXCEPT ![v] = Plus(st.dist[u], ew[<<u, v>>])],
          pred |-> [st.pred EXCEPT ![v] = u]]
    ELSE st

\* lines 194-200: the loop over graph.vertices
RECURSIVE dijkstra_relax(_, _, _, _, _)
dijkstra_relax(ew, vis, u, vs, st0) ==
    IF vs = <<>> THEN st0
    ELSE CHOOSE r \in {dijkstra_relax(ew, vis, u, Tail(ws), dijkstra_visit(ew, vis, u, Head(ws), st)) :
                          st \in {st0}, ws \in {vs}} : TRUE

\* shortest_paths(graph, algorithm, source, target), lines 171-177, and
\* _dijkstra_adjacency_list up to the loop of line 191
DijkstraCall ==
    /\ pc = "caller"
    /\ IF sp_func(algorithm, impl) \notin ModuleAttributes
       THEN /\ pc' = "failed"
            /\ ret' = RetNotImplementedError
            /\ UNCHANGED <<hvars, visited, dist, pred, it>>
       ELSE IF sp_func(algorithm, impl) \notin TakesThree
       THEN /\ pc' = "failed"
            /\ ret' = RetTypeError
            /\ UNCHANGED <<hvars, visited, dist, pred, it>>
       ELSE /\ visited' = dijkstra_visited0(vertices)
            /\ pred' = dijkstra_pred0(vertices)
            /\ dist' = dijkstra_dist0(vertices, start)
            /\ heap' = dijkstra_push_all(build(<<>>, -1, 2, "min"), -1,
                                         dijkstra_dist_order(vertices, start),
                                         dijkstra_dist0(vertices, start))
            /\ lpf' = Len(vertices) - 1
            /\ d' = 2
            /\ comp' = "lt"
            /\ it' = 0
            /\ pc' = "dijkstra"
            /\ UNCHANGED ret
    /\ op' = "shortest_paths"
    /\ UNCHANGED <<argvars, histvars, gvars, pvars, start, sp_target>>

\* one iteration of the loop of line 191
DijkstraIter ==
    /\ pc = "dijkstra"
    /\ it < Len(vertices)
    /\ IF lpf = -1
       THEN /\ pc' = "failed"
            /\ ret' = RetIndexError
            /\ op' = "dijkstra_iter"
            /\ UNCHANGED <<hvars, visited, dist, pred, it>>
       ELSE \E u \in {At(heap, 0).data} :
            \E vis \in {[visited EXCEPT ![u] = TRUE]} :
            \E st \in {dijkstra_relax(edge_weights, vis, u, vertices,
                          [heap |-> extract_heap(heap, lpf, d, comp), lpf |-> lpf - 1,
                           dist |-> dist, pred |-> pred])} :
               /\ visited' = vis
               /\ heap' = st.heap
               /\ lpf' = st.lpf
               /\ dist' = st.dist
               /\ pred' = st.pred
               /\ it' = it + 1
               /\ op' = IF visited[u] THEN "dijkstra_stale" ELSE "dijkstra_iter"
               /\ UNCHANGED <<pc, ret, d, comp>>
    /\ UNCHANGED <<argvars, histvars, gvars, pvars, start, sp_target>>

\* variant: a target that is not in dist is given the distance infinity
dijkstra_return_default(dm, pm, t) ==
    IF t # NoTarget
    THEN RetPaths(IF t \in DOMAIN dm THEN dm[t] ELSE Inf, pm)
    ELSE RetPaths(dm, pm)

\* lines 202-204: dist[target] is a lookup in the dict dist
dijkstra_return(dm, pm, t) ==
    IF t # NoTarget
    THEN IF t \in DOMAIN dm THEN RetPaths(dm[t], pm) ELSE RetKeyError
    ELSE RetPaths(dm, pm)

\* lines 202-204
DijkstraReturn ==
    /\ pc = "dijkstra"
    /\ it = Len(vertices)
    /\ \E r \in {dijkstra_return(dist, pred, sp_target)} :
         /\ ret' = r
         /\ pc' = IF r.kind = "KeyError" THEN "failed" ELSE "dijkstra_done"
    /\ op' = "return_paths"
    /\ UNCHANGED <<argvars, hvars, histvars, gvars, pvars, dvars>>

\* lines 191-200 as a function: k iterations of the outer loop;
\* st = [heap, lpf, dist, pred, visited]
RECURSIVE dijkstra_loop(_, _, _, _)
dijkstra_loop(ew, vs, st0, k) ==
    IF k = 0 \/ st0.lpf = -1 THEN st0
    ELSE CHOOSE r \in
           {dijkstra_loop(ew, vs, [heap |-> st.heap, lpf |-> st.lpf, dist |-> st.dist,
                                   pred |-> st.pred, visited |-> vis], k - 1) :
              vis \in {[st0.visited EXCEPT ![At(st0.heap, 0).data] = TRUE]},
              st \in {dijkstra_relax(ew, [st0.visited EXCEPT ![At(st0.heap, 0).data] = TRUE],
                                     At(st0.heap, 0).data, vs,
                                     [heap |-> extract_heap(st0.heap, st0.lpf, 2, "lt"),
                                      lpf |-> st0.lpf - 1,
                                      dist |-> st0.dist, pred |-> st0.pred])}} : TRUE

\* _dijkstra_adjacency_list(graph, start, target) as a function
dijkstra_adjacency_list(g, s, t) ==
    LET final == dijkstra_loop(g.edge_weights, g.vertices,
                     [heap |-> dijkstra_push_all(build(<<>>, -1, 2, "min"), -1,
                                                 dijkstra_dist_order(g.vertices, s),
                                                 dijkstra_dist0(g.vertices, s)),
                      lpf |-> Len(g.vertices) - 1,
                      dist |-> dijkstra_dist0(g.vertices, s),
                      pred |-> dijkstra_pred0(g.vertices),
                      visited |-> dijkstra_visited0(g.vertices)],
                     Len(g.vertices))
    IN dijkstra_return(final.dist, final.pred, t)

DijkstraInitOn(graphs, targets) ==
    /\ pc = "caller"
    /\ \E g \in graphs :
         /\ vertices = g.vertices
         /\ edge_weights = g.edge_weights
         /\ input = g
    /\ start \in 1..NStart
    /\ sp_target \in targets
    /\ results = <<>>
    /\ algorithm = "dijkstra"
    /\ impl = "adjacency_list"
    /\ visited = EmptyMap
    /\ dist = EmptyMap
    /\ pred = EmptyMap
    /\ it = 0
    /\ HeapIdle
    /\ PrimIdle

DijkstraInit == DijkstraInitOn(DirectedGraphs, {NoTarget})
DijkstraTargetInit == DijkstraInitOn(DirectedGraphsOver(TargetValues), Targets)
DijkstraSignedInit == DijkstraInitOn(DirectedGraphsOver(SignedValues), {NoTarget})

DijkstraNext == DijkstraCall \/ DijkstraIter \/ DijkstraReturn

SpecDijkstra == DijkstraInit /\ [][DijkstraNext]_vars
SpecDijkstraTarget == DijkstraTargetInit /\ [][DijkstraNext]_vars
SpecDijkstraSigned == DijkstraSignedInit /\ [][DijkstraNext]_vars

----------------------------------------------------------------------------
(* Calls of minimum_spanning_tree and shortest_paths with any algorithm on *)
(* graphs of either implementation                                         *)
NVCalls == 3                \* the graphs of these calls have the vertices 1..NVCalls
Algorithms == {"prim", "kruskal", "dijkstra", "bellman_ford", "minimum_spanning_tree_prim"}
Implementations == {"adjacency_list", "adjacency_matrix"}

CallsInit ==
    /\ pc \in {"driver", "caller"}
    /\ \E g \in UndirectedGraphs(NVCalls) :
         /\ vertices = g.vertices
         /\ edge_weights = g.edge_weights
         /\ input = g
    /\ algorithm \in Algorithms
    /\ impl \in Implementations
    /\ results = <<>>
    /\ start = 1
    /\ sp_target = NoTarget
    /\ visited = EmptyMap
    /\ dist = EmptyMap
    /\ pred = EmptyMap
    /\ it = 0
    /\ PrimIdle
    /\ HeapIdle

CallsNext ==
    MSTCall \/ PrimIter \/ PrimReturn \/ DijkstraCall \/ DijkstraIter \/ DijkstraReturn

SpecCalls == CallsInit /\ [][CallsNext]_vars

----------------------------------------------------------------------------
(* Properties of the heap and of the priority queue *)
Parent(i, dd) == (i - 1) \div dd
CreatedEmpty == pc = "heap" /\ elements = <<>>
Occurrences(h, n) == Cardinality({i \in DOMAIN h : h[i] = n})
SameNodes(h1, h2) ==
    \A i \in DOMAIN h1 \cup DOMAIN h2 :
        /\ i \in DOMAIN h1 => Occurrences(h1, h1[i]) = Occurrences(h2, h1[i])
        /\ i \in DOMAIN h2 => Occurrences(h1, h2[i]) = Occurrences(h2, h2[i])
ParentDominates(h, last, dd, property) ==
    \A i \in 1..last :
        IF property = "min"
        THEN At(h, Parent(i, dd)).key <= At(h, i).key
        ELSE At(h, Parent(i, dd)).key >= At(h, i).key

\* C1: in a heap created empty with property 'min' (resp. 'max') and arity
\* d >= 2, after any sequence of inserts and extracts every non-root index i
\* has key[(i-1) div d] <= key[i] (resp. >=).
C1_HeapInvariant ==
    CreatedEmpty => /\ lpf = Len(heap) - 1
                    /\ ParentDominates(heap, lpf, d, heap_property)

C1_Witness ==
    /\ CreatedEmpty
    /\ interleaved
    /\ nExt >= 1
    /\ lpf = 3
    /\ At(heap, 0).key < At(heap, 3).key

\* C2: n inserts into an empty heap followed by extracts with no interleaved
\* insert give the keys in ascending order for a min-heap and in descending
\* order for a max-heap, for every arity.
C2_ExtractionSorted ==
    (CreatedEmpty /\ ~interleaved) =>
        \A i \in 1..(Len(extracted) - 1) :
            IF heap_property = "min"
            THEN extracted[i] <= extracted[i + 1]
            ELSE extracted[i] >= extracted[i + 1]

C2_Witness ==
    /\ CreatedEmpty
    /\ ~interleaved
    /\ nIns = 4
    /\ nExt = 4
    /\ d = 2
    /\ extracted[1] # extracted[2]
    /\ extracted[3] = extracted[4]

\* C5: with the default comparator every pop of a non-empty queue returns the
\* value of an entry whose priority is minimal among the entries in the queue
\* and removes exactly that entry.
C5_PopMinimal ==
    [][(op' = "pop" /\ pc = "pq" /\ comp = "lt" /\ lpf >= 0) =>
        \E i \in 0..lpf :
            /\ ret' = RetValue(At(heap, i).data)
            /\ \A j \in 0..lpf : At(heap, i).key <= At(heap, j).key
            /\ Len(heap') = Len(heap) - 1
            /\ \A j \in 0..lpf :
                 Occurrences(heap', At(heap, j)) =
                     Occurrences(heap, At(heap, j)) - (IF At(heap, j) = At(heap, i) THEN 1 ELSE 0)
      ]_vars

C5_Witness ==
    /\ pc = "pq"
    /\ comp = "lt"
    /\ op = "pop"
    /\ ret.kind = "value"
    /\ interleaved
    /\ nExt >= 2
    /\ lpf >= 1
    /\ At(heap, 0).key = At(heap, 1).key

C7_EmptyIffBalanced ==
    /\ [](CreatedEmpty => (is_empty(heap) <=> nIns = nExt))
    /\ [][(CreatedEmpty /\ op' = "is_empty") => (ret'.kind = "true" <=> nIns = nExt)]_vars
    /\ [][(CreatedEmpty /\ op' = "extract" /\ lpf = 0) =>
             (ret' = RetNode(At(heap, 0)) /\ heap' = <<>> /\ lpf' = -1)]_vars

C7_Witness ==
    /\ CreatedEmpty
    /\ op = "is_empty"
    /\ ret.kind = "true"
    /\ nIns = 3
    /\ nExt = 3

\* C8: on a non-empty queue peek returns the node whose data the next pop
\* returns, and peek changes neither the contents nor the size of the queue.
C8_PeekThenPop ==
    [][/\ (op' = "peek" /\ lpf >= 0) => (ret'.kind = "node" /\ hvars' = hvars)
       /\ (op = "peek" /\ ret.kind = "node" /\ op' = "pop") => ret' = RetValue(ret.data)
      ]_vars

C8_Witness ==
    /\ pc = "pq"
    /\ op = "peek"
    /\ ret.kind = "node"
    /\ lpf >= 2
    /\ At(heap, lpf).data # ret.data

\* C9: the constructor turns any initial list of nodes into a heap in which
\* every parent dominates its children and that holds the same multiset of
\* (key, data) pairs as the list.
C9_BuildValid ==
    (pc = "heap" /\ op = "new") =>
        /\ lpf = Len(elements) - 1
        /\ ParentDominates(heap, lpf, d, heap_property)
        /\ Len(heap) = Len(elements)
        /\ SameNodes(heap, elements)

C9_Witness ==
    /\ pc = "heap"
    /\ op = "new"
    /\ Len(elements) = 4
    /\ d = 2
    /\ At(elements, 3).key < At(elements, 1).key
    /\ At(elements, 1).key < At(elements, 0).key

----------------------------------------------------------------------------
(* Properties of Dijkstra, Prim and the forest driver *)
RECURSIVE ReachFrom(_, _)
ReachFrom(E, R) ==
    LET R2 == R \cup {p[2] : p \in {q \in E : q[1] \in R}}
    IN IF R2 = R THEN R ELSE ReachFrom(E, R2)

RECURSIVE SumWeights(_, _)
SumWeights(ew, E) ==
    IF E = {} THEN 0
    ELSE LET p == CHOOSE q \in E : TRUE
         IN ew[p] + SumWeights(ew, E \ {p})

BothWays(T) == T \cup {<<p[2], p[1]>> : p \in T}

\* the least total weight of a spanning tree of the vertices V under the
\* undirected edges ew, which must connect V
MinSpanningWeight(ew, V) ==
    LET UE == {p \in DOMAIN ew : p[1] < p[2] /\ p[1] \in V /\ p[2] \in V}
        trees == {T \in SUBSET UE :
                     /\ Cardinality(T) = Cardinality(V) - 1
                     /\ \A x \in V : ReachFrom(BothWays(T), {x}) = V}
        weights == {SumWeights(ew, T) : T \in trees}
    IN CHOOSE w \in weights : \A w2 \in weights : w <= w2

\* tree is a spanning tree of the vertices V of the graph ew
IsSpanningTree(tree, ew, V) ==
    /\ tree.vertices = V
    /\ \A p \in DOMAIN tree.edge_weights :
         /\ p \in DOMAIN ew
         /\ tree.edge_weights[p] = ew[p]
         /\ <<p[2], p[1]>> \in DOMAIN tree.edge_weights
         /\ p[1] # p[2]
    /\ Cardinality(DOMAIN tree.edge_weights) = 2 * (Cardinality(V) - 1)
    /\ \A x \in V : ReachFrom(DOMAIN tree.edge_weights, {x}) = V

IsMinimumSpanningTree(tree, ew, V) ==
    /\ IsSpanningTree(tree, ew, V)
    /\ SumWeights(tree.edge_weights, DOMAIN tree.edge_weights) = 2 * MinSpanningWeight(ew, V)

Component(g, x) == ReachFrom(DOMAIN g.edge_weights, {x})
IsConnected(g) == \A x \in Range(g.vertices) : Component(g, x) = Range(g.vertices)

\* the distances of the vertices from s by Bellman-Ford relaxation
RECURSIVE BellmanFord(_, _, _)
BellmanFord(ew, dm, k) ==
    IF k = 0 THEN dm
    ELSE BellmanFord(ew,
            [v \in DOMAIN dm |->
                LET cands == {dm[v]} \cup {Plus(dm[p[1]], ew[p]) : p \in {q \in DOMAIN ew : q[2] = v}}
                IN CHOOSE c \in cands : \A c2 \in cands : c <= c2],
            k - 1)

ShortestDist(g, s) ==
    BellmanFord(g.edge_weights,
                [v \in Range(g.vertices) |-> IF v = s THEN 0 ELSE Inf],
                Len(g.vertices))

AllPositive(ew) == \A p \in DOMAIN ew : ew[p] > 0

\* C3: for a graph whose edge weights are all strictly positive and a source
\* in the graph, shortest_paths(graph, 'dijkstra', source) returns dist with
\* dist[source] = 0 and dist[v] the weight of a minimum-weight directed path
\* from the source to v, infinity when there is none.
C3_DijkstraShortest ==
    (pc = "dijkstra_done" /\ AllPositive(edge_weights)) =>
        /\ dist[start] = 0
        /\ \A v \in Range(vertices) : dist[v] = ShortestDist(input, start)[v]

\* C11: shortest_paths with a target that is a vertex returns (d, pred) with
\* d = dist[target] and pred the predecessor map of the call without a target
\* for the same graph and source; with a target that is no vertex the call
\* fails with a lookup error.
C11_TargetResult ==
    (op = "return_paths" /\ sp_target # NoTarget) =>
        LET whole == dijkstra_adjacency_list(input, start, NoTarget)
        IN IF sp_target \in Range(input.vertices)
           THEN /\ pc = "dijkstra_done"
                /\ ret.kind = "paths"
                /\ ret.key = whole.key[sp_target]
                /\ ret.data = whole.data
           ELSE /\ pc = "failed"
                /\ ret.kind = "KeyError"

C11_Witness ==
    /\ op = "return_paths"
    /\ pc = "dijkstra_done"
    /\ sp_target = 4
    /\ start = 1
    /\ ret.key = 3
    /\ ret.data[4] = 3

\* C12: a call with an algorithm/implementation combination that is not
\* provided fails with NotImplementedError before any traversal runs:
\* minimum_spanning_tree with anything but 'prim' on an adjacency list, and
\* shortest_paths with any algorithm other than 'dijkstra'.
C12_Unimplemented ==
    [][/\ (pc = "driver" /\ ~(algorithm = "prim" /\ impl = "adjacency_list")) =>
            (pc' = "failed" /\ ret'.kind = "NotImplementedError"
                /\ UNCHANGED <<hvars, pvars, dvars>>)
       /\ (pc = "caller" /\ algorithm # "dijkstra") =>
            (pc' = "failed" /\ ret'.kind = "NotImplementedError"
                /\ UNCHANGED <<hvars, pvars, dvars>>)]_vars

\* C13: constructing a heap with a heap_property that is neither 'min' nor
\* 'max' fails with ValueError and produces no heap, whatever the elements
\* and the arity.
C13_InvalidProperty ==
    (heap_property \notin {"min", "max"} /\ pc # "new") =>
        /\ pc = "failed"
        /\ op = "new"
        /\ ret = RetValueError
        /\ heap = <<>>
        /\ lpf = -1
        /\ comp = "none"

C13_Witness ==
    /\ pc = "failed"
    /\ heap_property = "mid"
    /\ Len(elements) = 3
    /\ d = 3
    /\ ret = RetValueError

\* the children of i in a heap filled up to last
Children(last, dd, i) == {j \in (dd * i + 1)..(dd * i + dd) : j <= last}
\* the children of i no other child of i strictly dominates
TiedBest(h, last, dd, c, i) ==
    {j \in Children(last, dd, i) :
        \A k \in Children(last, dd, i) :
            At(h, k).key = At(h, j).key \/ ~Comp(c, At(h, k).key, At(h, j).key)}
SetMin(S) == CHOOSE x \in S : \A y \in S : x <= y
SetMax(S) == CHOOSE x \in S : \A y \in S : x >= y

\* one level of _heapify at i: among several tied best children the child
\* swapped is the one of lowest index (lowest = TRUE) or of highest index
TieRuleAt(h, last, dd, c, i, lowest) ==
    LET t == heapify_target(h, last, dd, c, i)
        best == TiedBest(h, last, dd, c, i)
    IN (t # i /\ Cardinality(best) > 1) =>
          t = (IF lowest THEN SetMin(best) ELSE SetMax(best))

\* every level of the sift-down that starts at i
RECURSIVE TieRuleAlong(_, _, _, _, _, _)
TieRuleAlong(h, last, dd, c, i, lowest) ==
    LET t == heapify_target(h, last, dd, c, i)
    IN /\ TieRuleAt(h, last, dd, c, i, lowest)
       /\ t # i => TieRuleAlong(swap(h, t, i), last, dd, c, t, lowest)

\* every sift-down of the bulk build, from index i down to 0
RECURSIVE TieRuleBuild(_, _, _, _, _, _)
TieRuleBuild(h, last, dd, c, i, lowest) ==
    IF i < 0 THEN TRUE
    ELSE /\ TieRuleAlong(h, last, dd, c, i, lowest)
         /\ TieRuleBuild(heapify(h, last, dd, c, i), last, dd, c, i - 1, lowest)

\* C14: in extract's sift-down and in the bulk build, when several children
\* of the current node are tied for the most-dominating key, the child of
\* lowest index is the one swapped, in min- and max-heaps of every arity.
C14_LowestTiedChild ==
    [][/\ (pc = "heap" /\ op' = "extract" /\ lpf >= 0) =>
            TieRuleAlong(ArrayDelete(swap(heap, 0, lpf), lpf), lpf - 1, d, comp, 0, TRUE)
       /\ (pc = "new" /\ pc' = "heap") =>
            TieRuleBuild(elements, lpf', d, comp', (lpf' + 1) \div d, TRUE)]_vars

\* C14 as amended: the child swapped is the tied child of highest index
C14_HighestTiedChild ==
    [][/\ (pc = "heap" /\ op' = "extract" /\ lpf >= 0) =>
            TieRuleAlong(ArrayDelete(swap(heap, 0, lpf), lpf), lpf - 1, d, comp, 0, FALSE)
       /\ (pc = "new" /\ pc' = "heap") =>
            TieRuleBuild(elements, lpf', d, comp', (lpf' + 1) \div d, FALSE)]_vars

C14_Witness ==
    /\ pc = "heap"
    /\ op = "new"
    /\ d = 2
    /\ heap_property = "min"
    /\ Len(elements) = 3
    /\ At(elements, 0).key = 3
    /\ At(elements, 1).key = 1
    /\ At(elements, 2).key = 1
    /\ At(heap, 0).data = At(elements, 2).data

\* C15: in the heap backing a PriorityQueue, after any pushes and pops, equal
\* priorities included, comparator(priority[p], priority[i]) is true for every
\* non-root index i with parent p, for the queue's comparator.
C15_QueueInvariant ==
    pc = "pq" =>
        \A i \in 1..lpf : Comp(comp, At(heap, Parent(i, 2)).key, At(heap, i).key)

\* C15 as amended: the comparator holds of parent and child or their
\* priorities are equal
C15_QueueInvariantOrEqual ==
    pc = "pq" =>
        \A i \in 1..lpf :
            \/ Comp(comp, At(heap, Parent(i, 2)).key, At(heap, i).key)
            \/ At(heap, Parent(i, 2)).key = At(heap, i).key

C15_Witness ==
    /\ pc = "pq"
    /\ comp = "lt"
    /\ op = "pop"
    /\ lpf = 2
    /\ At(heap, 0).key = At(heap, 1).key
    /\ At(heap, 0).key < At(heap, 2).key
    /\ nIns = 4

\* C16: in Prim's loop a pop of a vertex that is already in the output graph
\* adds no vertex and no edge to the output, does not change e and pushes
\* nothing: the queue loses the popped entry and nothing else changes.
C16_StalePopNoOp ==
    [][(pc = "prim" /\ pc' = "prim" /\ lpf >= 0 /\ At(heap, 0).data \in mst_vertices) =>
          /\ mst_vertices' = mst_vertices
          /\ mst_edges' = mst_edges
          /\ e' = e
          /\ lpf' = lpf - 1
          /\ \A i \in DOMAIN heap :
                Occurrences(heap', heap[i]) =
                    Occurrences(heap, heap[i]) - (IF heap[i] = At(heap, 0) THEN 1 ELSE 0)]_vars

C16_Witness ==
    /\ pc = "prim"
    /\ op = "prim_skip"
    /\ lpf >= 1
    /\ Cardinality(mst_vertices) = 3
    /\ Cardinality(DOMAIN mst_edges) = 4

\* C17: in Dijkstra's loop a pop of an entry of an already visited vertex
\* changes no dist and no pred entry and pushes nothing, and the dist and
\* pred of a visited vertex never change for the rest of the run.
C17_StalePopHarmless ==
    [][(pc = "dijkstra" /\ it' = it + 1) =>
          /\ visited[At(heap, 0).data] =>
                (dist' = dist /\ pred' = pred /\ lpf' = lpf - 1 /\ visited' = visited)
          /\ \A v \in Range(vertices) :
                visited[v] => (dist'[v] = dist[v] /\ pred'[v] = pred[v] /\ visited'[v])]_vars

C17_Witness ==
    /\ pc = "dijkstra"
    /\ op = "dijkstra_stale"
    /\ \E v \in Range(vertices) : ~visited[v] /\ dist[v] < Inf
    /\ \E v \in Range(vertices) : visited[v] /\ pred[v] # 0 /\ pred[pred[v]] # 0

PositiveEdges(ew) == {p \in DOMAIN ew : ew[p] > 0}

\* C18: Dijkstra never relaxes along an edge of zero or negative weight: in
\* the result every pred[v] = u that is not none is an edge u -> v of
\* strictly positive weight, and a vertex the source reaches only through
\* edges of weight zero or less keeps distance infinity and predecessor none.
C18_PositiveEdgesOnly ==
    pc = "dijkstra_done" =>
        /\ \A v \in Range(vertices) :
              pred[v] # 0 => (HasEdge(edge_weights, pred[v], v)
                                /\ edge_weights[<<pred[v], v>>] > 0)
        /\ \A v \in Range(vertices) \ ReachFrom(PositiveEdges(edge_weights), {start}) :
              dist[v] = Inf /\ pred[v] = 0

C18_Witness ==
    /\ pc = "dijkstra_done"
    /\ start = 1
    /\ HasEdge(edge_weights, 1, 2) /\ edge_weights[<<1, 2>>] = 1
    /\ HasEdge(edge_weights, 2, 3) /\ edge_weights[<<2, 3>>] = 0
    /\ HasEdge(edge_weights, 2, 4) /\ edge_weights[<<2, 4>>] = -1
    /\ ~HasEdge(edge_weights, 1, 4)
    /\ pred[2] = 1
    /\ dist[3] = Inf
    /\ dist[4] = Inf

RECURSIVE SumNeighbours(_, _)
SumNeighbours(ew, S) ==
    IF S = {} THEN 0
    ELSE LET v == CHOOSE x \in S : TRUE
         IN Len(neighbors(ew, v)) + SumNeighbours(ew, S \ {v})

\* C19: for every input graph with at least one vertex Prim's loop terminates
\* with the priority queue empty, and the pushes made (the pops so far plus
\* the entries in the queue) are at most 1 plus the sum of the neighbour
\* counts of the finalized vertices.
C19_PrimTerminates ==
    /\ <>(pc = "returned")
    /\ [](pc = "returned" => (lpf = -1 /\ heap = <<>>))
    /\ [](pc \in {"prim", "returned"} =>
            nExt + lpf + 1 <= 1 + SumNeighbours(input.edge_weights, mst_vertices))

C19_Witness ==
    /\ pc = "returned"
    /\ heap = <<>>
    /\ nExt = 3
    /\ mst_vertices = {1, 2}
    /\ <<2, 3>> \notin DOMAIN input.edge_weights
    /\ <<3, 2>> \in DOMAIN input.edge_weights

\* C20: running Prim or Dijkstra leaves the input graph as it was: the
\* vertices, the directed edges and every edge weight are the same after the
\* call as before it, and at every step in between.
C20_InputUnchanged ==
    /\ vertices = input.vertices
    /\ edge_weights = input.edge_weights

C20_Witness ==
    /\ pc = "returned"
    /\ Cardinality(DOMAIN mst_edges) = 4
    /\ Cardinality(DOMAIN edge_weights) = 6
    /\ C20_InputUnchanged

\* "a dominates b" for keys: <= under a min ordering, >= under a max ordering
KeyDominates(c, a, b) ==
    IF c \in {"min", "lt"} THEN a <= b ELSE a >= b

\* the (key, data) pairs of h2 are those of h1 and one more pair n
OneMore(h1, h2, n) ==
    /\ Len(h2) = Len(h1) + 1
    /\ \A i \in DOMAIN h2 :
         Occurrences(h2, h2[i]) = Occurrences(h1, h2[i]) + (IF h2[i] = n THEN 1 ELSE 0)

\* C21: an insert adds exactly one (key, data) pair to the heap and changes
\* no other pair; an extract removes exactly the pair it returns, no key is
\* separated from its data, and the key of the extracted pair dominates
\* every key that remains.
C21_PairsConserved ==
    [][/\ (op' \in {"insert", "push"}) =>
            \E key \in Keys, data \in Data \cup {NoData} :
                OneMore(heap, heap', [key |-> key, data |-> data])
       /\ (op' \in {"extract", "pop"} /\ lpf >= 0) =>
            \E i \in 0..lpf :
                /\ op' = "extract" => ret' = RetNode(At(heap, i))
                /\ op' = "pop" => ret' = RetValue(At(heap, i).data)
                /\ OneMore(heap', heap, At(heap, i))
                /\ \A j \in DOMAIN heap' :
                     KeyDominates(comp, At(heap, i).key, heap'[j].key)
      ]_vars

C21_Witness ==
    /\ pc = "heap"
    /\ op = "extract"
    /\ ret.kind = "node"
    /\ Len(elements) = 3
    /\ nIns = 1
    /\ nExt = 2
    /\ lpf = 1
    /\ At(heap, 0).data # At(heap, 1).data
    /\ ret.data # NoData

\* C22: after every iteration of Prim's loop on an undirected graph, mst is a
\* tree over the finalized vertices: connected, acyclic, with exactly
\* 2 * (finalized vertices - 1) directed edges, each with its reverse at the
\* same weight, and each an edge of the input graph with the same weight.
C22_TreeAtEveryIteration ==
    (pc = "prim" /\ nExt >= 1) =>
        /\ mst_vertices # {}
        /\ IsSpanningTree([vertices |-> mst_vertices, edge_weights |-> mst_edges],
                          edge_weights, mst_vertices)
        /\ \A p \in DOMAIN mst_edges : mst_edges[p] = mst_edges[<<p[2], p[1]>>]

C22_Witness ==
    /\ pc = "prim"
    /\ op = "prim_iter"
    /\ Cardinality(mst_vertices) = 3
    /\ Len(vertices) = 4
    /\ lpf >= 0
    /\ Cardinality({p \in DOMAIN edge_weights : p[1] \in mst_vertices /\ p[2] \in mst_vertices}) = 6
    /\ Cardinality(DOMAIN mst_edges) = 4

\* pred and dist agree: the source has no predecessor, a predecessor u of v
\* is a visited vertex with an edge u->v and dist[v] = dist[u] + weight, and
\* a vertex other than the source without predecessor is at infinity
PredConsistent ==
    /\ pred[start] = 0
    /\ \A v \in DOMAIN pred :
         IF pred[v] # 0
         THEN /\ HasEdge(edge_weights, pred[v], v)
              /\ visited[pred[v]]
              /\ dist[v] = dist[pred[v]] + edge_weights[<<pred[v], v>>]
         ELSE v # start => dist[v] = Inf

\* C23: throughout Dijkstra's run and in its result pred and dist agree
\* (pred[source] is none; pred[v] = u means the edge u->v exists, u was
\* visited when pred[v] was set and dist[v] = dist[u] + weight(u, v); no
\* predecessor means infinity), and the loop pops exactly |V| times, never
\* from an empty queue.
C23_PredConsistent ==
    /\ [](pc \in {"dijkstra", "dijkstra_done"} =>
            /\ PredConsistent
            /\ ret.kind # "IndexError"
            /\ lpf + 1 >= Len(vertices) - it
            /\ pc = "dijkstra_done" => it = Len(vertices))
    /\ [][pc = "dijkstra" /\ pc' = "dijkstra" =>
            /\ lpf >= 0
            /\ it' = it + 1
            /\ \A v \in DOMAIN pred :
                 pred'[v] # pred[v] =>
                     /\ pred'[v] = At(heap, 0).data
                     /\ visited'[pred'[v]]
                     /\ ~visited'[v]
      ]_vars

C23_Witness ==
    /\ pc = "dijkstra_done"
    /\ start = 1
    /\ it = NVD
    /\ pred[2] = 1
    /\ pred[3] = 2
    /\ pred[4] = 1
    /\ dist[4] < dist[2] + 5
    /\ HasEdge(edge_weights, 2, 4)
    /\ pred[6] = 0
    /\ dist[6] = Inf

\* C4: for a connected undirected graph minimum_spanning_tree(graph, 'prim')
\* returns a graph with every input vertex whose edges form a spanning tree
\* of minimum total weight.
C4_PrimMinimum ==
    (pc = "returned" /\ Len(results) = 1 /\ IsConnected(input)) =>
        IsMinimumSpanningTree(results[1], input.edge_weights, Range(input.vertices))

C4_Witness ==
    /\ pc = "returned"
    /\ Len(results) = 1
    /\ IsConnected(input)
    /\ Cardinality(DOMAIN input.edge_weights) = 12
    /\ \E p \in DOMAIN input.edge_weights : p \notin DOMAIN mst_edges /\ input.edge_weights[p] = 1
    /\ \E p \in DOMAIN mst_edges : mst_edges[p] = 2

\* the trees returned so far cover disjoint connected components of the
\* input graph, each from its round's starting vertex, each at minimum weight
ForestPartition ==
    /\ UNION {results[i].vertices : i \in DOMAIN results} = Range(input.vertices)
    /\ \A i, j \in DOMAIN results : i # j => results[i].vertices \cap results[j].vertices = {}
    /\ \A i \in DOMAIN results :
         LET earlier == UNION {results[j].vertices : j \in 1..(i - 1)}
             first == CHOOSE x \in Range(input.vertices) \ earlier :
                          \A y \in Range(input.vertices) \ earlier : x <= y
         IN /\ results[i].vertices = Component(input, first)
            /\ IsMinimumSpanningTree(results[i], input.edge_weights, results[i].vertices)

\* C10: computing minimum_spanning_tree(graph, 'prim') and removing the
\* returned vertices until no vertex remains terminates, and the vertex sets
\* of the results partition the vertices into the connected components, each
\* spanned at minimum total weight.
C10_ForestPartition ==
    /\ <>(pc = "done")
    /\ [](pc = "done" => ForestPartition)

C10_Witness ==
    /\ pc = "done"
    /\ Len(results) = 2
    /\ results[1].vertices = {1, 3}
    /\ results[2].vertices = {2}
    /\ DOMAIN results[1].edge_weights = {<<1, 3>>, <<3, 1>>}

====
